---- MODULE Spec2Model ----
(***************************************************************************)
(* A model of claude-logger: the offset-tracked reader (LogParser), the    *)
(* entry extractor (parse_line / extract_content), the resolver of the     *)
(* latest session, the watch loops of one LogWatcher and the supervisor    *)
(* of watch_all.                                                           *)
(*                                                                         *)
(* Spec         the watch pipeline of one LogWatcher over a project        *)
(*              directory whose session files grow by appends.             *)
(* SpecReader   one LogParser reading one file that grows.                 *)
(* SpecExtract  the extractor as a pure function over bounded inputs.      *)
(* SpecResolve  the resolver as a pure function over bounded listings.     *)
(* SpecSession  a "latest" watch: the resolver, then watch_session.        *)
(* SpecAll      watch_all: one pipeline per project directory.             *)
(***************************************************************************)
EXTENDS Integers, Sequences, FiniteSets, TLC

(***************************************************************************)
(* Bounds of the model.                                                    *)
(***************************************************************************)
\* SpecReader: the longest content, in bytes, of the file read
MaxLen == 4

\* Spec: the bytes the producer appends in all, over the session files
MaxBytes == 2

\* SpecExtract: the most blocks of a list body
MaxBlocks == 2

\* SpecResolve, SpecSession: the latest modification time of a file at start
MaxMtime == 2

\* SpecSession: the bytes the producer appends in all
MaxSessionBytes == 1

\* SpecAll: the worker threads of the runtime that polls the spawned tasks
Workers == 2

\* SpecSink: the entries one read returns
MaxEntries == 2

(***************************************************************************)
(* The bytes of a session file.  "LF" is 0x0A and "CR" is 0x0D.  "u" is    *)
(* the text of one complete user record and "a" that of one complete       *)
(* assistant record; any other text of a line is no JSON record.           *)
(***************************************************************************)
Byte == {"LF", "CR", "u", "a"}

\* Spec: the bytes the producer of the watched project writes
PipelineByte == {"LF", "u", "a"}

\* the session files of the watched project directory (extension jsonl)
Files == {"A", "B"}

FileSeq == <<"A", "B">>

\* the paths a notification can name: the session files and one other file
NonLogPath == "notes.txt"

\* no session file is the target: the watch is on a project directory
NoTarget == "none"

\* the names an entry of claude_dir can have
EntryNames == {"p1", "p2", "p3"}

Paths == Files \cup {NonLogPath}

\* a file with the log extension that lies in claude_dir itself, in no
\* project directory
StrayLog == "stray.jsonl"

\* path.extension() == Some("jsonl")
IsJsonl(p) == p \in Files \cup {StrayLog}

InSeq(x, seq) == \E i \in DOMAIN seq : seq[i] = x

RECURSIVE SumSeq(_)
SumSeq(s) == IF s = <<>> THEN 0 ELSE Head(s) + SumSeq(Tail(s))

RECURSIVE Flatten(_)
Flatten(ss) == IF ss = <<>> THEN <<>> ELSE Head(ss) \o Flatten(Tail(ss))

(***************************************************************************)
(* Text.  A string is a sequence of tokens: "NL" is the newline character, *)
(* "SP" a space, every other token a run of non-whitespace characters.     *)
(***************************************************************************)
IsWhitespace(t) == t \in {"NL", "SP"}

\* str::trim_end
RECURSIVE trim_end(_)
trim_end(s) ==
    IF s = <<>> THEN <<>>
    ELSE IF IsWhitespace(s[Len(s)]) THEN trim_end(SubSeq(s, 1, Len(s) - 1))
    ELSE s

(***************************************************************************)
(* JSON values, as serde_json hands them to the extractor.  A field that   *)
(* is absent (or not of the type the struct wants) is "MISSING".           *)
(***************************************************************************)
\* a content block: an item of a list body
Block(kind, type, hasText, text, name) ==
    [kind |-> kind, type |-> type, hasText |-> hasText, text |-> text, name |-> name]

\* message.content
ContentValue(kind, s, items) == [kind |-> kind, s |-> s, items |-> items]

\* the message field of a line
MessageValue(kind, role, c) == [kind |-> kind, role |-> role, content |-> c]

\* a raw line: syntax says whether serde_json can read it as a JSON object
RawLine(syntax, type, message, timestamp, sessionId, uuid) ==
    [syntax |-> syntax, type |-> type, message |-> message,
     timestamp |-> timestamp, sessionId |-> sessionId, uuid |-> uuid]

\* DateTime::parse_from_rfc3339(..).with_timezone(&Utc): the instant, or -1
ParseRfc3339(s) ==
    CASE s = "2024-01-01T00:00:00Z" -> 1
      [] s = "2024-01-01T09:00:00+09:00" -> 1
      [] s = "2024-01-01T00:00:01Z" -> 2
      [] OTHER -> -1

\* the LogMessage of a rejected line (never read)
NoMessage ==
    [role |-> "none", content |-> <<>>, timestamp |-> -1,
     session_id |-> "none", uuid |-> "none"]

\* one block's share of extract_content's result, before the final trim
BlockText(b) ==
    IF b.kind /= "object" \/ b.type = "MISSING" THEN <<>>
    ELSE CASE b.type = "text" ->
                IF b.hasText THEN b.text \o <<"NL">> ELSE <<>>
           [] b.type = "tool_use" ->
                IF b.name /= "MISSING"
                THEN <<"[Tool Use: ", b.name, "]", "NL">> ELSE <<>>
           [] b.type = "tool_result" -> <<"[Tool Result]", "NL">>
           [] b.type = "thinking" -> <<"[Thinking...]", "NL">>
           [] b.type = "NONSTRING" -> <<"[unknown]", "NL">>
           [] OTHER -> <<"[", b.type, "]", "NL">>

RECURSIVE ConcatBlocks(_)
ConcatBlocks(items) ==
    IF items = <<>> THEN <<>>
    ELSE BlockText(Head(items)) \o ConcatBlocks(Tail(items))

\* an extraction that leaves the trailing line breaks in
extract_content_untrimmed(c) ==
    CASE c.kind = "string" -> c.s
      [] c.kind = "array" -> ConcatBlocks(c.items)
      [] OTHER -> <<"Message content: ", c.kind>>

\* LogParser::extract_content
extract_content(c) ==
    CASE c.kind = "string" -> c.s
      [] c.kind = "array" -> trim_end(ConcatBlocks(c.items))
      [] OTHER -> <<"Message content: ", c.kind>>

\* serde_json::from_str::<RawLogEntry>
RawLogEntryOk(line) ==
    /\ line.syntax
    /\ line.type /= "MISSING"
    /\ line.timestamp /= "MISSING"
    /\ line.uuid /= "MISSING"
    /\ line.sessionId /= "NONSTRING"

\* serde_json::from_value::<MessageContent>
MessageContentOk(m) ==
    /\ m.kind = "object"
    /\ m.role /= "MISSING"
    /\ m.content.kind /= "missing"

\* a match that knows no system role
RoleOfNoSystem(role) ==
    CASE role = "user" -> "User"
      [] role = "assistant" -> "Assistant"
      [] OTHER -> "none"

\* the match on content_msg.role
RoleOf(role) ==
    CASE role = "user" -> "User"
      [] role = "assistant" -> "Assistant"
      [] role = "system" -> "System"
      [] OTHER -> "none"

Rejected(why) == [ok |-> FALSE, err |-> why, msg |-> NoMessage]

\* LogParser::parse_line
parse_line(line) ==
    IF ~RawLogEntryOk(line) THEN Rejected("Failed to parse JSON")
    ELSE IF line.type /= "user" /\ line.type /= "assistant"
    THEN Rejected("Not a message type")
    ELSE IF line.message.kind \in {"missing", "null"}
    THEN Rejected("Message field not found")
    ELSE IF ~MessageContentOk(line.message)
    THEN Rejected("Failed to parse message content")
    ELSE IF RoleOf(line.message.role) = "none" THEN Rejected("Unknown role")
    ELSE IF ParseRfc3339(line.timestamp) < 0
    THEN Rejected("Failed to parse timestamp")
    ELSE [ok |-> TRUE, err |-> "",
          msg |-> [role |-> RoleOf(line.message.role),
                   content |-> extract_content(line.message.content),
                   timestamp |-> ParseRfc3339(line.timestamp),
                   session_id |-> IF line.sessionId = "MISSING"
                                  THEN "unknown" ELSE line.sessionId,
                   uuid |-> line.uuid]]

(***************************************************************************)
(* The records behind the two record bytes.                                *)
(***************************************************************************)
UserRecord ==
    RawLine(TRUE, "user",
            MessageValue("object", "user", ContentValue("string", <<"hello">>, <<>>)),
            "2024-01-01T00:00:00Z", "MISSING", "u1")

AssistantRecord ==
    RawLine(TRUE, "assistant",
            MessageValue("object", "assistant",
                ContentValue("array", <<>>,
                    <<Block("object", "text", TRUE, <<"hi", "SP", "there">>, "MISSING")>>)),
            "2024-01-01T00:00:01Z", "MISSING", "u2")

Malformed ==
    RawLine(FALSE, "MISSING", MessageValue("missing", "MISSING",
            ContentValue("missing", <<>>, <<>>)), "MISSING", "MISSING", "MISSING")

\* serde_json's reading of the text of one line
JsonOf(text) ==
    CASE text = <<"u">> -> UserRecord
      [] text = <<"a">> -> AssistantRecord
      [] OTHER -> Malformed

VARIABLES
    content,           \* content[f]: the bytes of session file f
    present,           \* present[f]: file f can be opened right now
    last_position,     \* LogParser.last_position of the watcher's parser
    include_existing,  \* LogWatcher.include_existing
    trace,             \* the parse_file calls of the latest handler run
    yielded,           \* yielded[f]: the lines successful calls read from f
    consumed,          \* consumed[f]: the cursor advance made by calls on f
    state,             \* the pipeline: Idle, Watching, Error, Stopped
    raw,               \* SpecExtract: the line handed to the extractor
    out,               \* SpecExtract: what the extractor made of it
    registered,        \* the notify watcher has its watch on the directory
    result,            \* what the entry point returned: "running" until then
    routed,            \* what the loop's latest turn took from the channel
    listing,           \* the directory entries the resolver is given
    target,            \* watch_session's session_path, or "none"
    projects,          \* SpecAll: the entries of claude_dir, by name
    supervisor,        \* SpecAll: where watch_all is
    spawned,           \* SpecAll: the projects a task was spawned for, in order
    pipes,             \* SpecAll: pipes[p]: the pipeline of project p
    errchan,           \* SpecAll: the messages in the supervisor's channel
    printed,           \* SpecAll: the messages the supervisor has printed
    webhook_sender,    \* LogWatcher.webhook_sender: "None" or "Some"
    tool_display_mode, \* LogFormatter.tool_display_mode of the watcher
    startup_time,      \* LogWatcher.startup_time
    messages,          \* SpecSink: what the latest parse_file returned
    emitted,           \* SpecSink: what the latest read wrote, in order
    webhook_failed     \* SpecSink: a webhook call of an earlier read failed

\* the variables of the resolver and of single-file mode
sessionVars == <<listing, target>>

\* the variables of watch_all
allVars == <<projects, supervisor, spawned, pipes, errchan, printed>>

\* the options of the watcher and the variables of its sinks
sinkVars == <<webhook_sender, tool_display_mode, startup_time, messages,
              emitted, webhook_failed>>

vars == <<content, present, last_position, include_existing, trace, yielded,
          consumed, state, raw, out, registered, result, routed, listing,
          target, projects, supervisor, spawned, pipes, errchan, printed,
          webhook_sender, tool_display_mode, startup_time, messages, emitted,
          webhook_failed>>

(***************************************************************************)
(* The offset-tracked reader: LogParser::parse_file.                       *)
(***************************************************************************)
\* the index of the first LF of c after offset pos, or 0
RECURSIVE NextLF(_, _)
NextLF(c, pos) ==
    IF pos >= Len(c) THEN 0
    ELSE IF c[pos + 1] = "LF" THEN pos + 1
    ELSE NextLF(c, pos + 1)

\* BufRead::lines from offset pos: every line up to end of file, the last one
\* also when no LF ends it; the LF, and a CR before it, are not in the text
RECURSIVE ReadLines(_, _)
ReadLines(c, pos) ==
    IF pos >= Len(c) THEN <<>>
    ELSE LET nl == NextLF(c, pos)
             to == IF nl = 0 THEN Len(c) ELSE nl
             body == SubSeq(c, pos + 1, IF nl = 0 THEN Len(c) ELSE nl - 1)
             text == IF nl /= 0 /\ body /= <<>> /\ body[Len(body)] = "CR"
                     THEN SubSeq(body, 1, Len(body) - 1)
                     ELSE body
         IN  <<[from |-> pos, to |-> to, text |-> text, terminated |-> nl /= 0]>>
             \o ReadLines(c, to)

\* current_position += line.len() as u64 + 1
RECURSIVE Advance(_)
Advance(lines) ==
    IF lines = <<>> THEN 0
    ELSE Len(Head(lines).text) + 1 + Advance(Tail(lines))

\* if let Ok(message) = self.parse_line(&line) { messages.push(message) }
RECURSIVE Messages(_)
Messages(lines) ==
    IF lines = <<>> THEN <<>>
    ELSE LET r == parse_line(JsonOf(Head(lines).text))
         IN  (IF r.ok THEN <<r.msg>> ELSE <<>>) \o Messages(Tail(lines))

\* a failed call that keeps the bytes it has counted
PositionOnErrorCounted(pos, lines) == pos + Advance(lines)

\* the cursor after a call that failed: self.last_position is not assigned
PositionOnError(pos, lines) == pos

\* a count that starts from the head of the file on every call
StartPositionZero(pos) == 0

\* let mut current_position = self.last_position
StartPosition(pos) == pos

\* File::open(path) succeeds: the path is a session file that exists
Openable(f) == f \in DOMAIN present /\ present[f]

\* LogParser::parse_file on file f with the cursor at pos; ioErr: reading a
\* line fails (an I/O error, or bytes that are not UTF-8)
parse_file(f, pos, ioErr) ==
    IF ~Openable(f)
    THEN [file |-> f, opened |-> FALSE, ok |-> FALSE, err |-> "Cannot open file",
          before |-> pos, after |-> pos, lines |-> <<>>, messages |-> <<>>]
    ELSE LET lines == ReadLines(content[f], pos)
         IN  IF ioErr
             THEN [file |-> f, opened |-> TRUE, ok |-> FALSE, err |-> "read",
                   before |-> pos,
                   after |-> PositionOnError(pos, lines),
                   lines |-> <<>>, messages |-> <<>>]
             ELSE [file |-> f, opened |-> TRUE, ok |-> TRUE, err |-> "",
                   before |-> pos,
                   after |-> StartPosition(pos) + Advance(lines),
                   lines |-> lines, messages |-> Messages(lines)]

(***************************************************************************)
(* The watch pipeline: LogWatcher::watch_project.                          *)
(***************************************************************************)
\* the paths of one notification
MaxPaths == 2

EventKinds == {"Create(File)", "Modify", "Remove"}

\* Event.paths: one path, or several different ones (a rename)
PathSeqs ==
    {ps \in UNION {[1..n -> Paths] : n \in 1..MaxPaths} :
        \A i, j \in DOMAIN ps : i /= j => ps[i] /= ps[j]}

\* Duration::from_millis(100)
DebounceMs == 100

\* a handler that reads at once
NoDebounce(elapsed) == elapsed

\* sleep(Duration::from_millis(100)).await: the time since the notification
\* was taken from the channel, after the wait
Debounce(elapsed) == elapsed + DebounceMs

\* a call of process_jsonl_file, with what led to it: trigger is "event" for
\* a notification and "existing" for the start-up read, waited the time the
\* handler has slept since it took the notification
Triggered(call, trigger, waited) ==
    [file |-> call.file, opened |-> call.opened, ok |-> call.ok,
     err |-> call.err, before |-> call.before, after |-> call.after,
     lines |-> call.lines, messages |-> call.messages,
     trigger |-> trigger, waited |-> waited]

\* LogWatcher::handle_file_event, on the paths from index i on, with the
\* cursor at pos: the parse_file calls it makes.  ioErr: the index of the
\* path whose read fails, or 0.  The first failed call ends the handler (the ?).
RECURSIVE HandlePaths(_, _, _, _, _)
HandlePaths(paths, i, pos, ioErr, elapsed) ==
    IF i > Len(paths) THEN <<>>
    ELSE IF ~IsJsonl(paths[i]) THEN HandlePaths(paths, i + 1, pos, ioErr, elapsed)
    ELSE LET waited == Debounce(elapsed)
             call == Triggered(parse_file(paths[i], pos, i = ioErr), "event", waited)
         IN  IF call.ok
             THEN <<call>> \o HandlePaths(paths, i + 1, call.after, ioErr, waited)
             ELSE <<call>>

\* the loop has taken no notification yet
NoEvent == "none"

\* the notification is one the router has no use for: its kind is neither
\* create-file nor modify, or none of its paths has the log extension
IsDiscarded(kind, paths) ==
    \/ kind \notin {"Create(File)", "Modify"}
    \/ \A i \in DOMAIN paths : ~IsJsonl(paths[i])

\* the reads of the handler that can fail: ioErr is 0 for none, or the index
\* of a path that the handler reads
ReadIndexes(kind, paths) ==
    {0} \cup {i \in DOMAIN paths :
                kind \in {"Create(File)", "Modify"} /\ IsJsonl(paths[i])}

\* a handler that reads whatever the kind of the event
handle_file_event_any_kind(kind, paths, ioErr) ==
    HandlePaths(paths, 1, last_position, ioErr, 0)

handle_file_event(kind, paths, ioErr) ==
    IF kind \in {"Create(File)", "Modify"}
    THEN HandlePaths(paths, 1, last_position, ioErr, 0)
    ELSE <<>>

\* LogWatcher::process_existing_files over the directory entries in the
\* order read_dir gives them: a failed call is reported and the loop goes on
RECURSIVE ExistingCalls(_, _, _, _)
ExistingCalls(entries, i, pos, ioErr) ==
    IF i > Len(entries) THEN <<>>
    ELSE IF ~IsJsonl(entries[i]) THEN ExistingCalls(entries, i + 1, pos, ioErr)
    ELSE LET call == Triggered(parse_file(entries[i], pos, i = ioErr), "existing", 0)
         IN  <<call>> \o ExistingCalls(entries, i + 1, call.after, ioErr)

\* the cursor after a run of calls
CursorAfter(calls, pos) == IF calls = <<>> THEN pos ELSE calls[Len(calls)].after

\* the lines the successful calls among calls read from f
RECURSIVE LinesOf(_, _)
LinesOf(calls, f) ==
    IF calls = <<>> THEN <<>>
    ELSE (IF Head(calls).file = f /\ Head(calls).ok THEN Head(calls).lines ELSE <<>>)
         \o LinesOf(Tail(calls), f)

RECURSIVE AdvanceOf(_, _)
AdvanceOf(calls, f) ==
    IF calls = <<>> THEN 0
    ELSE (IF Head(calls).file = f THEN Head(calls).after - Head(calls).before ELSE 0)
         + AdvanceOf(Tail(calls), f)

\* the offset at which the pipeline reads file f next: self.parser is the one
\* parser of the watcher, whatever the path
NextReadOffset(f) == last_position

\* what a run of calls leaves behind
Ran(calls) ==
    /\ last_position' = CursorAfter(calls, last_position)
    /\ trace' = calls
    /\ yielded' = [f \in Files |-> yielded[f] \o LinesOf(calls, f)]
    /\ consumed' = [f \in Files |-> consumed[f] + AdvanceOf(calls, f)]

\* the orders in which read_dir can list the files that exist
DirOrders ==
    LET here == {f \in Files : present[f]}
    IN  {o \in [1..Cardinality(here) -> here] :
            \A i, j \in 1..Cardinality(here) : i /= j => o[i] /= o[j]}

\* Spec, SpecReader: the extractor is not looked at on its own
NoLine == "none"

\* SpecExtract: the line has not been handed to the extractor yet
Pending == [ok |-> FALSE, err |-> "pending", msg |-> NoMessage]

TypeOK ==
    /\ \A f \in Files : content[f] \in Seq(Byte)
    /\ present \in [Files -> BOOLEAN]
    /\ last_position \in Nat
    /\ include_existing \in BOOLEAN
    /\ state \in {"Idle", "Watching", "Error", "Stopped"}
    /\ registered \in BOOLEAN
    /\ target \in Paths \cup {NoTarget}

\* LogWatcher::new(), LogFormatter::new(): the options of a fresh watcher
LogWatcherNew ==
    [include_existing |-> FALSE, webhook_sender |-> "None",
     tool_display_mode |-> "Simple"]

\* a pipeline that has done nothing: state s, watcher w
FreshPipe(s, w) ==
    [state |-> s, handled |-> FALSE, watcher |-> w, existing |-> FALSE,
     posted |-> FALSE, gone |-> "no", warned |-> 0]

\* pipes[p] when no task was spawned for entry p
NoPipe == FreshPipe("none", LogWatcherNew)

\* no resolver has run and no single file is the target
NoSession == listing = <<>> /\ target = NoTarget

\* a watcher as LogWatcher::new() leaves it, and nothing written
NoSink ==
    /\ webhook_sender = "None"
    /\ tool_display_mode = "Simple"
    /\ startup_time = 0
    /\ messages = <<>>
    /\ emitted = <<>>
    /\ webhook_failed = FALSE

\* watch_all has not been called
NoSupervisor ==
    /\ projects = [n \in EntryNames |-> "absent"]
    /\ supervisor = "Idle"
    /\ spawned = <<>>
    /\ pipes = [n \in EntryNames |-> NoPipe]
    /\ errchan = <<>>
    /\ printed = <<>>

Init ==
    /\ content = [f \in Files |-> <<>>]
    /\ present \in [Files -> BOOLEAN]
    /\ last_position = 0
    /\ include_existing \in BOOLEAN
    /\ trace = <<>>
    /\ yielded = [f \in Files |-> <<>>]
    /\ consumed = [f \in Files |-> 0]
    /\ state = "Idle"
    /\ raw = NoLine
    /\ out = NoLine
    /\ registered = FALSE
    /\ result = "running"
    /\ routed = NoEvent
    /\ NoSession
    /\ NoSink
    /\ NoSupervisor

\* the producer appends one byte to a session file
AppendByte(f, b, max) ==
    /\ state \in {"Idle", "Watching"}
    /\ present[f]
    /\ SumSeq([i \in 1..Len(FileSeq) |-> Len(content[FileSeq[i]])]) < max
    /\ content' = [content EXCEPT ![f] = Append(@, b)]
    /\ UNCHANGED <<sinkVars, present, last_position, include_existing, trace, yielded,
                   consumed, state, raw, out, registered, result,
                   sessionVars, allVars, routed>>

\* the file cannot be opened for a moment (producer race)
Vanish(f) ==
    /\ state \in {"Idle", "Watching"}
    /\ present[f]
    /\ present' = [present EXCEPT ![f] = FALSE]
    /\ UNCHANGED <<sinkVars, content, last_position, include_existing, trace, yielded,
                   consumed, state, raw, out, registered, result,
                   sessionVars, allVars, routed>>

Reappear(f) ==
    /\ state \in {"Idle", "Watching"}
    /\ ~present[f]
    /\ present' = [present EXCEPT ![f] = TRUE]
    /\ UNCHANGED <<sinkVars, content, last_position, include_existing, trace, yielded,
                   consumed, state, raw, out, registered, result,
                   sessionVars, allVars, routed>>

\* the directory listing read_dir gives before it fails: dirErr is the
\* index of the entry at which it fails, or 0
Listed(entries, dirErr) ==
    IF dirErr = 0 THEN entries ELSE SubSeq(entries, 1, dirErr - 1)

\* watch_project up to its loop: the watch is registered (or not), and with
\* include_existing the files that exist are read; a listing that fails
\* ends watch_project with that error (the ? on process_existing_files)
StartWatch(watchOk, ioErr) ==
    /\ state = "Idle"
    /\ IF ~watchOk
       THEN /\ state' = "Error"
            /\ registered' = FALSE
            /\ result' = "Err(watch)"
            /\ UNCHANGED <<last_position, trace, yielded, consumed>>
       ELSE /\ registered' = TRUE
            /\ \E entries \in DirOrders : \E dirErr \in 0..(Len(entries) + 1) :
                  LET failed == include_existing /\ dirErr /= 0
                  IN  /\ Ran(IF include_existing
                             THEN ExistingCalls(Listed(entries, dirErr), 1,
                                                last_position, ioErr)
                             ELSE <<>>)
                      /\ state' = IF failed THEN "Error" ELSE "Watching"
                      /\ result' = IF failed THEN "Err(read_dir)" ELSE "running"
    /\ UNCHANGED <<sinkVars, content, present, include_existing, raw, out, sessionVars,
                   allVars, routed>>

\* a loop that returns the handler's error
AfterHandlerPropagated(calls) ==
    IF calls /= <<>> /\ ~calls[Len(calls)].ok THEN "Error" ELSE "Watching"

\* if let Err(e) = self.handle_file_event(event).await { eprintln!(..) }:
\* the loop goes on, whatever the handler returned
AfterHandler(calls) == "Watching"

\* one turn of watch_project's loop on Ok(Ok(event)): an error of the
\* handler is printed and the loop goes on
HandleEvent(kind, paths, ioErr) ==
    /\ state = "Watching"
    /\ target = NoTarget
    /\ LET calls == handle_file_event(kind, paths, ioErr)
       IN  Ran(calls) /\ state' = AfterHandler(calls)
    /\ routed' = IF IsDiscarded(kind, paths) THEN "discarded" ELSE "handled"
    /\ UNCHANGED <<sinkVars, content, present, include_existing, raw, out, registered,
                   result, sessionVars, allVars>>

\* one turn of the loop on Ok(Err(e)): the notification source reports an
\* error, which is printed; nothing is read
WatchError ==
    /\ state = "Watching"
    /\ Ran(<<>>)
    /\ routed' = "error"
    /\ UNCHANGED <<sinkVars, content, present, include_existing, state, raw, out,
                   registered, result, sessionVars, allVars>>

\* rx.recv() fails: the notification channel is closed, the loop breaks and
\* the entry point returns Ok(())
ChannelClosed ==
    /\ state = "Watching"
    /\ state' = "Stopped"
    /\ result' = "Ok"
    /\ UNCHANGED <<sinkVars, content, present, last_position, include_existing, trace,
                   yielded, consumed, raw, out, registered, sessionVars,
                   allVars, routed>>

Next ==
    \/ \E f \in Files, b \in PipelineByte : AppendByte(f, b, MaxBytes)
    \/ \E f \in Files : Vanish(f)
    \/ \E f \in Files : Reappear(f)
    \/ \E watchOk \in BOOLEAN, ioErr \in 0..Cardinality(Files) :
          StartWatch(watchOk, ioErr)
    \/ \E kind \in EventKinds, paths \in PathSeqs :
          \E ioErr \in ReadIndexes(kind, paths) : HandleEvent(kind, paths, ioErr)
    \/ WatchError
    \/ ChannelClosed

Spec == Init /\ [][Next]_vars

(***************************************************************************)
(* SpecReader: one LogParser whose owner calls parse_file on one file, A,  *)
(* while the producer appends to it.                                       *)
(***************************************************************************)
InitReader ==
    /\ content = [f \in Files |-> <<>>]
    /\ present = [f \in Files |-> f = "A"]
    /\ last_position = 0
    /\ include_existing = FALSE
    /\ trace = <<>>
    /\ yielded = [f \in Files |-> <<>>]
    /\ consumed = [f \in Files |-> 0]
    /\ state = "Idle"
    /\ raw = NoLine
    /\ out = NoLine
    /\ registered = FALSE
    /\ result = "running"
    /\ routed = NoEvent
    /\ NoSession
    /\ NoSink
    /\ NoSupervisor

\* one call of LogParser::parse_file on file f
ReadCall(f, ioErr) ==
    /\ Ran(<<parse_file(f, last_position, ioErr)>>)
    /\ UNCHANGED <<sinkVars, content, present, include_existing, state, raw, out,
                   registered, result, sessionVars, allVars, routed>>

NextReader ==
    \/ \E b \in Byte : AppendByte("A", b, MaxLen)
    \/ Vanish("A")
    \/ Reappear("A")
    \/ \E ioErr \in BOOLEAN : ReadCall("A", ioErr)

SpecReader == InitReader /\ [][NextReader]_vars

(***************************************************************************)
(* SpecExtract: LogParser::parse_line applied to one line.                 *)
(***************************************************************************)
Texts == {<<>>, <<"hi">>, <<"l1", "NL", "l2">>, <<"SP">>}

NoContent == ContentValue("missing", <<>>, <<>>)

Blocks ==
    {Block("object", "text", TRUE, t, "MISSING") : t \in Texts}
    \cup {Block("object", "text", FALSE, <<>>, "MISSING")}
    \cup {Block("object", "tool_use", FALSE, <<>>, n) : n \in {"Read", "Bash", "MISSING"}}
    \cup {Block("object", t, FALSE, <<>>, "MISSING") :
            t \in {"tool_result", "thinking", "image", "NONSTRING", "MISSING"}}
    \cup {Block("nonobject", "MISSING", FALSE, <<>>, "MISSING")}

ListBodies ==
    {ContentValue("array", <<>>, items) :
        items \in UNION {[1..n -> Blocks] : n \in 0..MaxBlocks}}

\* the bodies tried with every envelope
FewBodies ==
    {NoContent, ContentValue("string", <<"hello">>, <<>>),
     ContentValue("number", <<>>, <<>>),
     ContentValue("array", <<>>, <<Block("object", "tool_result", FALSE, <<>>, "MISSING")>>)}

MessageValues ==
    {MessageValue(k, "MISSING", NoContent) : k \in {"missing", "null", "scalar"}}
    \cup {MessageValue("object", r, c) :
            r \in {"user", "assistant", "system", "tool", "MISSING"}, c \in FewBodies}

Envelopes ==
    {RawLine(TRUE, t, m, ts, sid, u) :
        t \in {"user", "assistant", "summary", "MISSING"},
        m \in MessageValues,
        ts \in {"MISSING", "yesterday", "2024-01-01T00:00:00Z", "2024-01-01T09:00:00+09:00"},
        sid \in {"MISSING", "s1", "NONSTRING"},
        u \in {"MISSING", "u1"}}

ExtractInputs ==
    {Malformed}
    \cup Envelopes
    \cup {RawLine(TRUE, "assistant", MessageValue("object", "assistant", c),
                  "2024-01-01T00:00:01Z", "s1", "u2") : c \in ListBodies}

InitExtract ==
    /\ content = [f \in Files |-> <<>>]
    /\ present = [f \in Files |-> FALSE]
    /\ last_position = 0
    /\ include_existing = FALSE
    /\ trace = <<>>
    /\ yielded = [f \in Files |-> <<>>]
    /\ consumed = [f \in Files |-> 0]
    /\ state = "Idle"
    /\ raw \in ExtractInputs
    /\ out = Pending
    /\ registered = FALSE
    /\ result = "running"
    /\ routed = NoEvent
    /\ NoSession
    /\ NoSink
    /\ NoSupervisor

\* self.parse_line(&line)
Extract ==
    /\ out = Pending
    /\ out' = parse_line(raw)
    /\ UNCHANGED <<sinkVars, content, present, last_position, include_existing, trace,
                   yielded, consumed, state, raw, registered, result,
                   sessionVars, allVars, routed>>

NextExtract == Extract

SpecExtract == InitExtract /\ [][NextExtract]_vars

(***************************************************************************)
(* The resolver: get_latest_session, get_latest_session_in_project.        *)
(* A listing is the files the walk meets, in the order read_dir gives      *)
(* them: the files of the project directories and the plain files of       *)
(* claude_dir itself, each with its modification time.  A file whose       *)
(* metadata cannot be read is a file that is not listed.                   *)
(***************************************************************************)
ResolverPaths == Paths \cup {StrayLog}

Listings ==
    {l \in UNION {[1..n -> [path : ResolverPaths, mtime : 1..MaxMtime]] :
                    n \in 0..Cardinality(ResolverPaths)} :
        \A i, j \in DOMAIN l : i /= j => l[i].path /= l[j].path}

\* .filter(|entry| entry.file_type().map_or(false, |ft| ft.is_dir())) and the
\* flat_map over read_dir(entry.path()): only files in a directory of
\* claude_dir are met
IsInProject(e) == e.path /= StrayLog

InProjects(entries) == SelectSeq(entries, IsInProject)

\* a filter that lets every extension through
IsCandidateAnyExtension(e) == TRUE

\* .filter(|file| file.path().extension().and_then(|s| s.to_str()) == Some("jsonl"))
IsCandidate(e) == IsJsonl(e.path)

Candidates(entries) == SelectSeq(entries, IsCandidate)

\* Iterator::max_by_key(|(_, modified)| *modified) on a sequence that is not
\* empty: of several greatest elements, the last
RECURSIVE max_by_key(_)
max_by_key(c) ==
    IF Len(c) = 1 THEN c[1]
    ELSE LET m == max_by_key(SubSeq(c, 1, Len(c) - 1))
         IN  IF c[Len(c)].mtime >= m.mtime THEN c[Len(c)] ELSE m

Resolved(path) == [ok |-> TRUE, path |-> path, err |-> ""]

NotResolved(err) == [ok |-> FALSE, path |-> NoTarget, err |-> err]

\* LogWatcher::get_latest_session; dirOk: claude_dir can be listed
get_latest_session(dirOk, entries) ==
    IF ~dirOk THEN NotResolved("Claude projects directory not found")
    ELSE LET c == Candidates(InProjects(entries))
         IN  IF c = <<>> THEN NotResolved("No session files found")
             ELSE Resolved(max_by_key(c).path)

\* LogWatcher::get_latest_session_in_project on the entries of the project
\* directory; dirOk: the directory can be listed
get_latest_session_in_project(dirOk, entries) ==
    IF ~dirOk THEN NotResolved("Project directory not found")
    ELSE LET c == Candidates(entries)
         IN  IF c = <<>> THEN NotResolved("No session files found in project")
             ELSE Resolved(max_by_key(c).path)

\* the resolution of a "latest" request: over all projects, or in the one
\* project directory the operator named
Resolve(inProject, dirOk, entries) ==
    IF inProject THEN get_latest_session_in_project(dirOk, InProjects(entries))
    ELSE get_latest_session(dirOk, entries)

(***************************************************************************)
(* SpecResolve: the resolver applied to one listing.                       *)
(***************************************************************************)
InitResolve ==
    /\ content = [f \in Files |-> <<>>]
    /\ present = [f \in Files |-> FALSE]
    /\ last_position = 0
    /\ include_existing = FALSE
    /\ trace = <<>>
    /\ yielded = [f \in Files |-> <<>>]
    /\ consumed = [f \in Files |-> 0]
    /\ state = "Idle"
    /\ raw = NoLine
    /\ out = NoLine
    /\ registered = FALSE
    /\ result = "running"
    /\ routed = NoEvent
    /\ NoSink
    /\ listing \in Listings
    /\ target = NoTarget
    /\ NoSupervisor

\* self.get_latest_session().await, or the one in a project
ResolveLatest(inProject, dirOk) ==
    /\ result = "running"
    /\ LET r == Resolve(inProject, dirOk, listing)
       IN  /\ target' = r.path
           /\ result' = IF r.ok THEN "Ok" ELSE r.err
    /\ UNCHANGED <<sinkVars, content, present, last_position, include_existing, trace,
                   yielded, consumed, state, raw, out, registered, listing,
                   allVars, routed>>

NextResolve == \E inProject \in BOOLEAN, dirOk \in BOOLEAN : ResolveLatest(inProject, dirOk)

SpecResolve == InitResolve /\ [][NextResolve]_vars

(***************************************************************************)
(* SpecSession: a "latest" watch.  watch_latest_session (or the one in a   *)
(* project) resolves the target once and hands it to watch_session, whose  *)
(* loop takes the notifications of the target's directory.  A session file *)
(* exists exactly when the listing has it, and every append makes the file *)
(* the newest of the listing.                                              *)
(***************************************************************************)
\* the bytes the producer writes in SpecSession
SessionByte == {"LF", "u"}

\* the listings a "latest" watch starts from: any session files, or only a
\* file of another extension
SessionListings ==
    {l \in Listings : \A i \in DOMAIN l : l[i].path \in Files}
    \cup {<<[path |-> NonLogPath, mtime |-> MaxMtime]>>}

IsListed(l, f) == \E i \in DOMAIN l : l[i].path = f

RECURSIVE MaxTime(_)
MaxTime(l) ==
    IF l = <<>> THEN 0
    ELSE LET m == MaxTime(Tail(l))
         IN  IF Head(l).mtime > m THEN Head(l).mtime ELSE m

\* the listing after file f was written to: f is newer than every other file
Touched(l, f) ==
    [i \in DOMAIN l |->
        IF l[i].path = f /\ \E j \in DOMAIN l : j /= i /\ l[j].mtime >= l[i].mtime
        THEN [path |-> f, mtime |-> MaxTime(l) + 1]
        ELSE l[i]]

InitSession ==
    /\ content = [f \in Files |-> <<>>]
    /\ listing \in SessionListings
    /\ present = [f \in Files |-> IsListed(listing, f)]
    /\ last_position = 0
    /\ include_existing \in BOOLEAN
    /\ trace = <<>>
    /\ yielded = [f \in Files |-> <<>>]
    /\ consumed = [f \in Files |-> 0]
    /\ state = "Idle"
    /\ raw = NoLine
    /\ out = NoLine
    /\ registered = FALSE
    /\ result = "running"
    /\ routed = NoEvent
    /\ NoSink
    /\ target = NoTarget
    /\ NoSupervisor

\* the producer appends one byte to a session file
AppendSession(f, b) ==
    /\ state \in {"Idle", "Watching"}
    /\ present[f]
    /\ SumSeq([i \in 1..Len(FileSeq) |-> Len(content[FileSeq[i]])]) < MaxSessionBytes
    /\ content' = [content EXCEPT ![f] = Append(@, b)]
    /\ listing' = Touched(listing, f)
    /\ UNCHANGED <<sinkVars, present, last_position, include_existing, trace, yielded,
                   consumed, state, raw, out, registered, result, target,
                   allVars, routed>>

\* a session file is created while the watch runs
CreateLater(f) ==
    /\ state = "Watching"
    /\ ~present[f]
    /\ present' = [present EXCEPT ![f] = TRUE]
    /\ listing' = Append(listing, [path |-> f, mtime |-> MaxTime(listing) + 1])
    /\ UNCHANGED <<sinkVars, content, last_position, include_existing, trace, yielded,
                   consumed, state, raw, out, registered, result, target,
                   allVars, routed>>

\* a caller that goes on with whatever the resolver returned
ResolutionNeverFailed(r) == FALSE

\* let latest_session = self.get_latest_session().await?
ResolutionFailed(r) == ~r.ok

\* watch_session up to its loop: the watch on the parent directory is
\* registered (or not), and with include_existing the target is read, an
\* error of that read being printed
SessionStarted(path, watchOk, ioErr) ==
    IF ~watchOk
    THEN /\ state' = "Error"
         /\ registered' = FALSE
         /\ result' = "Err(watch)"
         /\ UNCHANGED <<last_position, trace, yielded, consumed>>
    ELSE /\ state' = "Watching"
         /\ registered' = TRUE
         /\ result' = "running"
         /\ Ran(IF include_existing
                THEN <<Triggered(parse_file(path, last_position, ioErr), "existing", 0)>>
                ELSE <<>>)

\* watch_latest_session, watch_latest_session_in_project, up to the loop
StartLatest(inProject, dirOk, watchOk, ioErr) ==
    /\ state = "Idle"
    /\ LET r == Resolve(inProject, dirOk, listing)
       IN  IF ResolutionFailed(r)
           THEN /\ state' = "Error"
                /\ result' = r.err
                /\ target' = NoTarget
                /\ registered' = FALSE
                /\ UNCHANGED <<last_position, trace, yielded, consumed>>
           ELSE /\ target' = r.path
                /\ SessionStarted(r.path, watchOk, ioErr)
    /\ UNCHANGED <<sinkVars, content, present, include_existing, raw, out, listing, allVars,
                   routed>>

\* a loop that resolves the latest session again on every notification
TargetResolvedAgain(path, entries) == Resolve(FALSE, TRUE, entries).path

\* session_path is the parameter of watch_session: the loop assigns nothing
\* to it, whatever the directory holds by now
TargetKept(path, entries) == path

\* if event.paths.iter().any(|p| p == session_path) { handle_file_event(event) }
watch_session_event(kind, paths, ioErr) ==
    IF \E i \in DOMAIN paths : paths[i] = target
    THEN handle_file_event(kind, paths, ioErr)
    ELSE <<>>

\* one turn of watch_session's loop on Ok(Ok(event))
SessionEvent(kind, paths, ioErr) ==
    /\ state = "Watching"
    /\ target /= NoTarget
    /\ LET calls == watch_session_event(kind, paths, ioErr)
       IN  Ran(calls) /\ state' = AfterHandler(calls)
    /\ target' = TargetKept(target, listing)
    /\ routed' = IF IsDiscarded(kind, paths) \/ ~InSeq(target, paths)
                 THEN "discarded" ELSE "handled"
    /\ UNCHANGED <<sinkVars, content, present, include_existing, raw, out, registered,
                   result, listing, allVars>>

NextSession ==
    \/ \E f \in Files, b \in SessionByte : AppendSession(f, b)
    \/ \E f \in Files : CreateLater(f)
    \/ \E inProject \in BOOLEAN, dirOk \in BOOLEAN, watchOk \in BOOLEAN,
          ioErr \in BOOLEAN : StartLatest(inProject, dirOk, watchOk, ioErr)
    \/ \E kind \in EventKinds, paths \in PathSeqs :
          \E ioErr \in ReadIndexes(kind, paths) : SessionEvent(kind, paths, ioErr)
    \/ WatchError
    \/ ChannelClosed

SpecSession == InitSession /\ [][NextSession]_vars

(***************************************************************************)
(* SpecAll: watch_all.  The supervisor lists claude_dir once, spawns one   *)
(* task per directory, each with a LogWatcher of its own running           *)
(* watch_project, and then prints what the tasks send on its channel.      *)
(* pipes[p].state is "none" (no task), "Idle" (spawned, not yet past the   *)
(* registration), "Watching", "Error" or "Stopped"; pipes[p].handled says  *)
(* that the pipeline has taken a notification.  A task that is Watching    *)
(* holds its worker thread in rx.recv().  pipes[p].watcher holds the       *)
(* options of the task's LogWatcher; existing says that the pipeline has   *)
(* delivered the entries that were there when it started, posted that it   *)
(* has posted an entry to the webhook.  pipes[p].gone is "no" while the    *)
(* watched directory is there, "pending" once it was deleted and "seen"    *)
(* once the loop has taken the notification of that; warned counts the     *)
(* errors of the notification source that the loop has printed.  Only a    *)
(* name that has no pipeline is given to a project created later.          *)
(***************************************************************************)
EntryKinds == {"absent", "file", "dir"}

\* the orders in which read_dir can list the entries that exist
EntryOrders ==
    LET here == {n \in EntryNames : projects[n] /= "absent"}
    IN  {o \in [1..Cardinality(here) -> here] :
            \A i, j \in 1..Cardinality(here) : i /= j => o[i] /= o[j]}

\* a loop that spawns a task for whatever the directory holds
IsAnyEntry(n) == projects[n] /= "absent"

\* if entry.file_type()?.is_dir()
IsProjectDir(n) == projects[n] = "dir"

\* the tasks spawned by the loop over the entries, in order
RECURSIVE Spawns(_)
Spawns(order) ==
    IF order = <<>> THEN <<>>
    ELSE (IF IsProjectDir(Head(order)) THEN <<Head(order)>> ELSE <<>>)
         \o Spawns(Tail(order))

\* the watcher main builds from the command line
Configured ==
    [include_existing |-> include_existing, webhook_sender |-> webhook_sender,
     tool_display_mode |-> tool_display_mode]

\* let mut watcher = LogWatcher::new() in the spawned task
TaskWatcher == LogWatcherNew

InitAll ==
    /\ content = [f \in Files |-> <<>>]
    /\ present = [f \in Files |-> FALSE]
    /\ last_position = 0
    /\ include_existing \in BOOLEAN
    /\ trace = <<>>
    /\ yielded = [f \in Files |-> <<>>]
    /\ consumed = [f \in Files |-> 0]
    /\ state = "Idle"
    /\ raw = NoLine
    /\ out = NoLine
    /\ registered = FALSE
    /\ result = "running"
    /\ routed = NoEvent
    /\ NoSession
    /\ webhook_sender \in {"None", "Some"}
    /\ tool_display_mode \in {"Simple", "Detailed"}
    /\ startup_time = 0
    /\ messages = <<>>
    /\ emitted = <<>>
    /\ webhook_failed = FALSE
    /\ projects \in [EntryNames -> EntryKinds]
    /\ supervisor = "Idle"
    /\ spawned = <<>>
    /\ pipes = [n \in EntryNames |-> NoPipe]
    /\ errchan = <<>>
    /\ printed = <<>>

\* watch_all up to its receive loop.  dirOk: claude_dir can be listed;
\* failAt: the index of the entry whose reading (entry?, file_type()?) fails
\* and ends watch_all with that error, or 0
WatchAll(dirOk, failAt) ==
    /\ supervisor = "Idle"
    /\ IF ~dirOk
       THEN /\ supervisor' = "Error"
            /\ result' = "Err(read_dir)"
            /\ UNCHANGED <<spawned, pipes>>
       ELSE \E order \in EntryOrders :
              /\ failAt <= Len(order)
              /\ LET tasks == Spawns(Listed(order, failAt))
                 IN  /\ spawned' = tasks
                     /\ pipes' = [n \in EntryNames |->
                                    IF InSeq(n, tasks)
                                    THEN FreshPipe("Idle", TaskWatcher)
                                    ELSE NoPipe]
              /\ supervisor' = IF failAt = 0 THEN "Waiting" ELSE "Error"
              /\ result' = IF failAt = 0 THEN "running" ELSE "Err(entry)"
    /\ UNCHANGED <<sinkVars, content, present, last_position, include_existing, trace,
                   yielded, consumed, state, raw, out, registered, sessionVars,
                   projects, errchan, printed, routed>>

\* a project directory is created while watch_all runs
CreateProject(n) ==
    /\ supervisor = "Waiting"
    /\ projects[n] = "absent"
    /\ pipes[n].state = "none"
    /\ projects' = [projects EXCEPT ![n] = "dir"]
    /\ UNCHANGED <<sinkVars, content, present, last_position, include_existing, trace,
                   yielded, consumed, state, raw, out, registered, result,
                   sessionVars, supervisor, spawned, pipes, errchan, printed,
                   routed>>

\* a task that ends without a word to the supervisor
NotReported(chan, p) == chan

\* tx_clone.send(format!("Error in project {project_path:?}: {e}")).await
Reported(chan, p) == Append(chan, p)

\* a worker thread of the runtime holds no task: every task that is
\* Watching sits in the blocking rx.recv() of its loop, on its worker
WorkerFree ==
    Cardinality({q \in EntryNames : pipes[q].state = "Watching"}) < Workers

\* the task of project p is polled by a free worker: watch_project runs up
\* to its loop, in a LogWatcher::new() (include_existing false), and either
\* the watch is registered or the error goes to the supervisor's channel
PipeStart(p, watchOk) ==
    /\ supervisor = "Waiting"
    /\ pipes[p].state = "Idle"
    /\ WorkerFree
    /\ IF watchOk
       THEN /\ pipes' = [pipes EXCEPT ![p].state = "Watching",
                                      ![p].existing = pipes[p].watcher.include_existing]
            /\ UNCHANGED errchan
       ELSE /\ pipes' = [pipes EXCEPT ![p].state = "Error"]
            /\ errchan' = Reported(errchan, p)
    /\ UNCHANGED <<sinkVars, content, present, last_position, include_existing, trace,
                   yielded, consumed, state, raw, out, registered, result,
                   sessionVars, projects, supervisor, spawned, printed, routed>>

\* the directory of a pipeline that is Watching is deleted: the notify
\* watcher of p has lost what it watched and tells the loop, with an event
\* or with an error, as the backend chooses
DeleteProject(p) ==
    /\ supervisor = "Waiting"
    /\ pipes[p].state = "Watching"
    /\ projects[p] = "dir"
    /\ pipes[p].gone = "no"
    /\ projects' = [projects EXCEPT ![p] = "absent"]
    /\ pipes' = [pipes EXCEPT ![p].gone = "pending"]
    /\ UNCHANGED <<sinkVars, content, present, last_position, include_existing,
                   trace, yielded, consumed, state, raw, out, registered, result,
                   sessionVars, supervisor, spawned, errchan, printed, routed>>

\* what rx.recv() hands to the loop
Notices == {"event", "error"}

\* the loop has taken the notification of the deletion, if one was due
Seen(gone) == IF gone = "pending" THEN "seen" ELSE gone

\* one turn of the loop of pipeline p.  Ok(Ok(event)): handle_file_event,
\* whose entries go to the webhook if the task's watcher has one;
\* Ok(Err(e)): eprintln!("File watching error: {e}"), which is looked at
\* only where the source has lost its directory
PipeEvent(p, notice) ==
    /\ supervisor = "Waiting"
    /\ pipes[p].state = "Watching"
    /\ IF notice = "event"
       THEN pipes' = [pipes EXCEPT
                        ![p].handled = TRUE,
                        ![p].posted = @ \/ pipes[p].watcher.webhook_sender = "Some",
                        ![p].gone = Seen(@)]
       ELSE /\ pipes[p].gone = "pending"
            /\ pipes' = [pipes EXCEPT ![p].warned = @ + 1, ![p].gone = Seen(@)]
    /\ UNCHANGED <<sinkVars, content, present, last_position, include_existing, trace,
                   yielded, consumed, state, raw, out, registered, result,
                   sessionVars, projects, supervisor, spawned, errchan, printed,
                   routed>>

\* the notification channel of pipeline p closes: watch_project returns
\* Ok(()) and the task ends, sending nothing
PipeClosed(p) ==
    /\ supervisor = "Waiting"
    /\ pipes[p].state = "Watching"
    /\ pipes' = [pipes EXCEPT ![p].state = "Stopped"]
    /\ UNCHANGED <<sinkVars, content, present, last_position, include_existing, trace,
                   yielded, consumed, state, raw, out, registered, result,
                   sessionVars, projects, supervisor, spawned, errchan, printed,
                   routed>>

\* a supervisor that returns the first error it is sent
AfterPrintReturned == "Error"

\* the while let loop goes on to the next rx.recv().await
AfterPrint == "Waiting"

\* while let Some(error) = rx.recv().await { eprintln!("{error}") }
SupervisorPrint ==
    /\ supervisor = "Waiting"
    /\ errchan /= <<>>
    /\ printed' = Append(printed, Head(errchan))
    /\ errchan' = Tail(errchan)
    /\ supervisor' = AfterPrint
    /\ UNCHANGED <<sinkVars, content, present, last_position, include_existing, trace,
                   yielded, consumed, state, raw, out, registered, result,
                   sessionVars, projects, spawned, pipes, routed>>

NextAll ==
    \/ \E dirOk \in BOOLEAN, failAt \in 0..Cardinality(EntryNames) : WatchAll(dirOk, failAt)
    \/ \E n \in EntryNames : CreateProject(n)
    \/ \E p \in EntryNames, watchOk \in BOOLEAN : PipeStart(p, watchOk)
    \/ \E p \in EntryNames : DeleteProject(p)
    \/ \E p \in EntryNames, notice \in Notices : PipeEvent(p, notice)
    \/ \E p \in EntryNames : PipeClosed(p)
    \/ SupervisorPrint

SpecAll == InitAll /\ [][NextAll]_vars

\* SpecAll with the scheduling of the runtime: the supervisor's task is
\* polled when a message is in its channel, and a spawned task is polled
\* when a worker is free
SpecAllFair ==
    /\ SpecAll
    /\ WF_vars(SupervisorPrint)
    /\ \A p \in EntryNames : WF_vars(\E watchOk \in BOOLEAN : PipeStart(p, watchOk))

\* message.raw_content as the webhook filter reads it: the LogMessage that
\* parse_line builds has the fields role, content, timestamp, session_id and
\* uuid, and none that holds the body
raw_content(msg) ==
    IF "raw_content" \in DOMAIN msg THEN msg.raw_content ELSE NoContent

(***************************************************************************)
(* The sinks: LogFormatter::format_message, WebhookSender::send_message    *)
(* and LogWatcher::process_jsonl_file.                                     *)
(***************************************************************************)
\* str.trim().is_empty()
IsBlank(s) == \A i \in DOMAIN s : IsWhitespace(s[i])

\* the index of the first newline of s, or 0
FirstNL(s) ==
    IF InSeq("NL", s) THEN CHOOSE i \in DOMAIN s :
                             s[i] = "NL" /\ \A j \in 1..(i - 1) : s[j] /= "NL"
    ELSE 0

\* str::lines
RECURSIVE str_lines(_)
str_lines(s) ==
    IF s = <<>> THEN <<>>
    ELSE IF FirstNL(s) = 0 THEN <<s>>
    ELSE <<SubSeq(s, 1, FirstNL(s) - 1)>>
         \o str_lines(SubSeq(s, FirstNL(s) + 1, Len(s)))

\* join("\n")
RECURSIVE JoinLines(_)
JoinLines(ls) ==
    IF ls = <<>> THEN <<>>
    ELSE IF Len(ls) = 1 THEN ls[1]
    ELSE ls[1] \o <<"NL">> \o JoinLines(Tail(ls))

\* LogFormatter::format_content
format_content(c) ==
    IF InSeq("NL", c)
    THEN JoinLines([i \in DOMAIN str_lines(c) |->
                      IF IsBlank(str_lines(c)[i]) THEN <<>>
                      ELSE <<"  ">> \o str_lines(c)[i]])
    ELSE c

\* the blocks of a list body that extract_tool_content stops at
IsToolBlock(b) ==
    b.kind = "object" /\ b.type \in {"tool_use", "tool_result", "thinking"}

\* LogFormatter::extract_tool_content: the first tool block of a list body
\* in its simple form (the detailed form adds the input or the result,
\* which a Block does not hold), or <<>> for None
extract_tool_content(rc) ==
    IF rc.kind /= "array" \/ ~\E i \in DOMAIN rc.items : IsToolBlock(rc.items[i])
    THEN <<>>
    ELSE LET i == CHOOSE i \in DOMAIN rc.items :
                     /\ IsToolBlock(rc.items[i])
                     /\ \A j \in 1..(i - 1) : ~IsToolBlock(rc.items[j])
             b == rc.items[i]
         IN  CASE b.type = "tool_use" ->
                    <<"tool ", IF b.name = "MISSING" THEN "Unknown" ELSE b.name>>
               [] b.type = "tool_result" -> <<"Result">>
               [] OTHER -> <<"Thinking...">>

\* LogFormatter::format_message_content
format_message_content(msg, mode) ==
    IF raw_content(msg) = NoContent THEN msg.content
    ELSE IF extract_tool_content(raw_content(msg)) = <<>> THEN msg.content
    ELSE IF mode = "None"
    THEN (IF \/ IsBlank(msg.content)
             \/ msg.content[1] \in {"[Tool Use: ", "[Tool Result]", "[Thinking...]"}
          THEN <<>> ELSE msg.content)
    ELSE extract_tool_content(raw_content(msg))

\* LogFormatter::format_message, with the formatter's defaults: the time of
\* the entry, the role and the content
format_message(msg, mode) ==
    IF IsBlank(format_message_content(msg, mode)) THEN <<>>
    ELSE <<"[HH:MM:SS] ", msg.role, ": ">>
         \o format_content(format_message_content(msg, mode))

\* the body of is_low_information_message_for_webhook, on the raw payload
LowInformation(rc) ==
    IF rc = NoContent \/ rc.kind /= "array" THEN FALSE
    ELSE LET arr == rc.items
             IsObject(i) == arr[i].kind = "object"
             HasType(i) == IsObject(i) /\ arr[i].type \notin {"MISSING", "NONSTRING"}
             has_text ==
                 \E i \in DOMAIN arr :
                     /\ HasType(i) /\ arr[i].type = "text"
                     /\ arr[i].hasText /\ ~IsBlank(arr[i].text)
             only_tool_results ==
                 \A i \in DOMAIN arr : HasType(i) => arr[i].type = "tool_result"
             only_read_edit_tools ==
                 \A i \in DOMAIN arr :
                     (HasType(i) /\ arr[i].type = "tool_use") =>
                         \A j \in DOMAIN arr :
                             (IsObject(j) /\ arr[j].name /= "MISSING") =>
                                 arr[j].name \in {"Read", "Edit"}
         IN  ~has_text /\ (only_tool_results \/ only_read_edit_tools)

\* WebhookSender::is_low_information_message_for_webhook
is_low_information_message_for_webhook(msg) == LowInformation(raw_content(msg))

\* what the HTTP call of one entry comes to: a success status, another
\* status, or a transport error: no response when the client's timeout
\* (Client::builder().timeout(..)) runs out
HttpOutcomes == {"Sent", "Status", "Timeout"}

\* WebhookSender::send_message: Ok(Skipped), Ok(Sent), or the Err
send_message(msg, outcome) ==
    IF is_low_information_message_for_webhook(msg) THEN "Skipped" ELSE outcome

\* the match on send_message's result in process_jsonl_file
webhook_status(sent) ==
    CASE sent \in {"None", "Sent"} -> <<>>
      [] sent = "Skipped" -> <<" [webhook: skipped]">>
      [] OTHER -> <<" [webhook: failed]">>

Emit(sink, i, text) == [sink |-> sink, entry |-> i, text |-> text]

\* a gate that also drops the entries written at the startup instant
SkippedByCutoffInclusive(msg) ==
    ~include_existing /\ msg.timestamp <= startup_time

\* if !self.include_existing && message.timestamp < self.startup_time
SkippedByCutoff(msg) ==
    ~include_existing /\ msg.timestamp < startup_time

\* a line that is printed only if the webhook did not fail
PrintlnUnlessFailed(i, formatted, status) ==
    IF status = <<" [webhook: failed]">> THEN <<>>
    ELSE <<Emit("stdout", i, formatted \o status)>>

\* println!("{formatted}{webhook_status}")
Println(i, formatted, status) == <<Emit("stdout", i, formatted \o status)>>

\* a loop that calls the webhook before it looks at the rendered text
process_message_unrendered(i, msg, outcome) ==
    IF SkippedByCutoff(msg) THEN <<>>
    ELSE LET formatted == format_message(msg, tool_display_mode)
             sent == IF webhook_sender = "None" THEN "None"
                       ELSE send_message(msg, outcome)
         IN  (IF sent \in {"None", "Skipped"} THEN <<>>
              ELSE <<Emit("webhook", i, sent)>>)
             \o (IF sent \in {"Status", "Timeout"}
                 THEN <<Emit("stderr", i, "Failed to send webhook")>>
                 ELSE <<>>)
             \o (IF IsBlank(formatted) THEN <<>>
                 ELSE Println(i, formatted, webhook_status(sent)))

\* one turn of the for loop of process_jsonl_file, on entry i of the read:
\* what it writes, in the order in which it writes it
process_message(i, msg, outcome) ==
    IF SkippedByCutoff(msg) THEN <<>>
    ELSE LET formatted == format_message(msg, tool_display_mode)
             sent == IF webhook_sender = "None" THEN "None"
                       ELSE send_message(msg, outcome)
         IN  IF IsBlank(formatted) THEN <<>>
             ELSE (IF sent \in {"None", "Skipped"} THEN <<>>
                   ELSE <<Emit("webhook", i, sent)>>)
                  \o (IF sent \in {"Status", "Timeout"}
                      THEN <<Emit("stderr", i, "Failed to send webhook")>>
                      ELSE <<>>)
                  \o Println(i, formatted, webhook_status(sent))

\* the webhook call of entry i of the read failed
Failed(events, i) ==
    \E k \in DOMAIN events : events[k].sink = "stderr" /\ events[k].entry = i

\* what the HTTP call for entry i comes to, if the loop makes it
OutcomeOf(outcomes, i) ==
    IF i \in DOMAIN outcomes THEN outcomes[i] ELSE "Sent"

\* a loop that applies ? to send_message
RECURSIVE ProcessUntilFailure(_, _, _)
ProcessUntilFailure(i, msgs, outcomes) ==
    IF i > Len(msgs) THEN <<>>
    ELSE LET events == process_message(i, msgs[i], OutcomeOf(outcomes, i))
         IN  IF Failed(events, i) THEN events
             ELSE events \o ProcessUntilFailure(i + 1, msgs, outcomes)

process_jsonl_file_propagating(msgs, outcomes) ==
    ProcessUntilFailure(1, msgs, outcomes)

\* for message in messages { .. }
RECURSIVE ProcessFrom(_, _, _)
ProcessFrom(i, msgs, outcomes) ==
    IF i > Len(msgs) THEN <<>>
    ELSE process_message(i, msgs[i], OutcomeOf(outcomes, i))
         \o ProcessFrom(i + 1, msgs, outcomes)

\* LogWatcher::process_jsonl_file after a parse_file that returned msgs
process_jsonl_file(msgs, outcomes) == ProcessFrom(1, msgs, outcomes)

(***************************************************************************)
(* SpecSink: one pipeline in its loop.  Each step is one notification of   *)
(* a session file: parse_file returns the new entries, msgs, or fails, and *)
(* process_jsonl_file hands them to the sinks; outcomes[i] is what the     *)
(* HTTP call for entry i comes to, if it is made.                          *)
(***************************************************************************)
\* a line whose body is c, written at timestamp ts
SinkLine(c, ts) ==
    RawLine(TRUE, "user", MessageValue("object", "user", c), ts, "s1", "u1")

\* the lines behind the entries a read returns: a plain body written at
\* the earlier instant, and a list body of one tool result and a body of
\* one space written at the later one
SinkLines ==
    {SinkLine(ContentValue("string", <<"hello">>, <<>>), "2024-01-01T00:00:00Z"),
     SinkLine(ContentValue("array", <<>>,
                  <<Block("object", "tool_result", FALSE, <<>>, "MISSING")>>),
              "2024-01-01T00:00:01Z"),
     SinkLine(ContentValue("string", <<"SP">>, <<>>), "2024-01-01T00:00:01Z")}

\* the entries parse_file can return
SinkMessages == {parse_line(l).msg : l \in SinkLines}

Reads == UNION {[1..n -> SinkMessages] : n \in 0..MaxEntries}

InitSink ==
    /\ content = [f \in Files |-> <<>>]
    /\ present = [f \in Files |-> TRUE]
    /\ last_position = 0
    /\ include_existing \in BOOLEAN
    /\ trace = <<>>
    /\ yielded = [f \in Files |-> <<>>]
    /\ consumed = [f \in Files |-> 0]
    /\ state = "Watching"
    /\ raw = NoLine
    /\ out = NoLine
    /\ registered = TRUE
    /\ result = "running"
    /\ routed = NoEvent
    /\ NoSession
    /\ NoSupervisor
    /\ webhook_sender \in {"None", "Some"}
    /\ tool_display_mode \in {"Simple", "None"}
    /\ startup_time \in {1, 2}
    /\ messages = <<>>
    /\ emitted = <<>>
    /\ webhook_failed = FALSE

\* a webhook call of the read whose events are given failed
AnyFailed(events) == \E k \in DOMAIN events : events[k].sink = "stderr" /\ events[k].entry > 0

\* the entries of a read for which the loop calls send_message: only a
\* call that is made has an outcome to choose
Posting(msgs) ==
    {i \in DOMAIN msgs :
        /\ webhook_sender /= "None"
        /\ ~SkippedByCutoff(msgs[i])
        /\ ~IsBlank(format_message(msgs[i], tool_display_mode))}

\* handle_file_event for a notification of one session file, in the loop
ProcessFile(readOk, msgs, outcomes) ==
    /\ state = "Watching"
    /\ IF readOk
       THEN /\ messages' = msgs
            /\ emitted' = process_jsonl_file(msgs, outcomes)
       ELSE /\ messages' = <<>>
            /\ emitted' = <<Emit("stderr", 0, "Error processing file event")>>
    /\ webhook_failed' = (webhook_failed \/ AnyFailed(emitted))
    /\ state' = AfterHandler(<<>>)
    /\ routed' = "handled"
    /\ UNCHANGED <<content, present, last_position, include_existing, trace,
                   yielded, consumed, raw, out, registered, result, sessionVars,
                   allVars, webhook_sender, tool_display_mode, startup_time>>

NextSink ==
    \E readOk \in BOOLEAN :
        \E msgs \in (IF readOk THEN Reads ELSE {<<>>}) :
            \E outcomes \in [Posting(msgs) -> HttpOutcomes] :
                ProcessFile(readOk, msgs, outcomes)

SpecSink == InitSink /\ [][NextSink]_vars

(***************************************************************************)
(* SpecDeliver: watch_project on a directory of two session files that the *)
(* producer grows by whole lines, some of them ended by CR LF.  Every line *)
(* a read yields goes through process_jsonl_file, so what the sinks of the *)
(* pipeline were handed for a file follows from the lines yielded for it.  *)
(***************************************************************************)
\* the lines of the two files together
MaxLines == 6

\* the lines the producer writes: an empty line ended by CR LF, and an
\* entry ended by LF
LineChunks == {<<"CR", "LF">>, <<"u", "LF">>}

\* the yielded lines that parse_line accepts: Messages(lines)[i] is the
\* entry of Entries(lines)[i]
Entries(lines) == SelectSeq(lines, LAMBDA l : parse_line(JsonOf(l.text)).ok)

\* the events process_jsonl_file wrote for file f over all the reads so far,
\* when every HTTP call it makes comes to outcome
Written(f, outcome) ==
    LET msgs == Messages(yielded[f])
    IN  process_jsonl_file(msgs, [i \in DOMAIN msgs |-> outcome])

\* the offsets in file f of the lines whose entries were handed to sink, in
\* the order in which they were handed to it
Deliveries(f, sink) ==
    LET events == SelectSeq(Written(f, "Status"), LAMBDA e : e.sink = sink)
    IN  [k \in DOMAIN events |-> Entries(yielded[f])[events[k].entry].from]

InitDeliver ==
    /\ content = [f \in Files |-> <<>>]
    /\ present = [f \in Files |-> TRUE]
    /\ last_position = 0
    /\ include_existing \in BOOLEAN
    /\ trace = <<>>
    /\ yielded = [f \in Files |-> <<>>]
    /\ consumed = [f \in Files |-> 0]
    /\ state = "Idle"
    /\ raw = NoLine
    /\ out = NoLine
    /\ registered = FALSE
    /\ result = "running"
    /\ routed = NoEvent
    /\ NoSession
    /\ NoSupervisor
    /\ webhook_sender = "Some"
    /\ tool_display_mode = "Simple"
    /\ startup_time = 1
    /\ messages = <<>>
    /\ emitted = <<>>
    /\ webhook_failed = FALSE

\* the producer appends one whole line to a session file
AppendLine(f, chunk, max) ==
    /\ state \in {"Idle", "Watching"}
    /\ present[f]
    /\ SumSeq([i \in 1..Len(FileSeq) |-> Len(content[FileSeq[i]])]) + Len(chunk)
          <= 2 * max
    /\ content' = [content EXCEPT ![f] = @ \o chunk]
    /\ UNCHANGED <<sinkVars, present, last_position, include_existing, trace, yielded,
                   consumed, state, raw, out, registered, result,
                   sessionVars, allVars, routed>>

NextDeliver ==
    \/ \E f \in Files, chunk \in LineChunks : AppendLine(f, chunk, MaxLines)
    \/ StartWatch(TRUE, 0)
    \/ \E f \in Files : HandleEvent("Modify", <<f>>, 0)

SpecDeliver == InitDeliver /\ [][NextDeliver]_vars

(***************************************************************************)
(* The reader's claims.                                                    *)
(***************************************************************************)
\* the length of c up to and including its last LF
RECURSIVE CompleteLen(_)
CompleteLen(c) ==
    IF c = <<>> THEN 0
    ELSE IF c[Len(c)] = "LF" THEN Len(c)
    ELSE CompleteLen(SubSeq(c, 1, Len(c) - 1))

\* the lines of ls, each with the newline that ends it
RECURSIVE WithNewlines(_)
WithNewlines(ls) ==
    IF ls = <<>> THEN <<>>
    ELSE Head(ls).text \o <<"LF">> \o WithNewlines(Tail(ls))

\* C1: no byte range of the file is yielded by more than one call: a line
\* yielded later starts where, or after, every line yielded before it ended.
C1_NoReEmit ==
    \A i, j \in DOMAIN yielded["A"] :
        i < j => yielded["A"][i].to <= yielded["A"][j].from

\* C2: after a successful call the lines yielded so far, concatenated, are
\* the content of the file up to its last newline.
C2_Concatenation ==
    (trace /= <<>> /\ trace[1].ok) =>
        WithNewlines(yielded["A"]) = SubSeq(content["A"], 1, CompleteLen(content["A"]))

\* C3: a line that no newline ends yet is not yielded and the cursor does not
\* move over it.
C3_PartialLine ==
    /\ \A i \in DOMAIN yielded["A"] : yielded["A"][i].terminated
    /\ last_position <= CompleteLen(content["A"])

\* C5: the cursor never decreases, whether a call succeeds or fails.
C5_CursorMonotone == [][last_position' >= last_position]_vars

\* C5: a call has failed after the cursor had advanced
C5_Witness ==
    /\ trace /= <<>>
    /\ ~trace[1].ok
    /\ last_position > 0
    /\ Len(yielded["A"]) > 0

\* the texts the extractor accepts
IsRecordText(text) == text \in {<<"u">>, <<"a">>}

\* C9: a line that fails extraction is skipped for good: the call that read
\* it leaves the cursor at or after the end of the line, and no later call
\* yields a line that starts before that end.
C9_RejectedLineSkipped ==
    /\ \A i \in DOMAIN trace : \A k \in DOMAIN trace[i].lines :
          (trace[i].ok /\ ~IsRecordText(trace[i].lines[k].text)) =>
              trace[i].after >= trace[i].lines[k].to
    /\ \A i, j \in DOMAIN yielded["A"] :
          (i < j /\ ~IsRecordText(yielded["A"][i].text)) =>
              yielded["A"][j].from >= yielded["A"][i].to

(***************************************************************************)
(* The pipeline's claims.                                                  *)
(***************************************************************************)
\* C4: one cursor per file: the offset at which a file is read next is the
\* count of the bytes consumed from that same file.
C4_CursorPerFile == \A f \in Files : NextReadOffset(f) = consumed[f]

\* C6: reading a file that does not exist gives an empty sequence of lines,
\* not an error; the cursor stays and the pipeline goes on watching.
C6_MissingFileIsEmpty ==
    \A i \in DOMAIN trace :
        ~trace[i].opened =>
            /\ trace[i].ok
            /\ trace[i].messages = <<>>
            /\ trace[i].after = trace[i].before
            /\ state /= "Error"

\* C7: a call that fails (the open, or a read part-way) returns nothing and
\* leaves the cursor where it was, so the lines it met are read again by the
\* next call.
C7_FailureKeepsCursor ==
    /\ \A i \in DOMAIN trace :
          ~trace[i].ok =>
              /\ trace[i].after = trace[i].before
              /\ trace[i].messages = <<>>
    /\ trace /= <<>> => last_position = trace[Len(trace)].after

\* C7: a read has failed part-way through a file that holds a complete line
\* beyond the cursor
C7_Witness ==
    \E i \in DOMAIN trace :
        /\ ~trace[i].ok
        /\ trace[i].err = "read"
        /\ CompleteLen(content[trace[i].file]) > trace[i].before

(***************************************************************************)
(* The extractor's claims.                                                 *)
(***************************************************************************)
\* the line is a record of the input format: a JSON object with a string
\* type, timestamp and uuid, a string sessionId if it has one, and a message
\* that, if present, is an object with a string role and a content
IsWellFormed(line) ==
    /\ line.syntax
    /\ line.type /= "MISSING"
    /\ line.timestamp /= "MISSING"
    /\ line.uuid /= "MISSING"
    /\ line.sessionId /= "NONSTRING"
    /\ line.message.kind \in {"missing", "null"}
       \/ /\ line.message.kind = "object"
          /\ line.message.role /= "MISSING"
          /\ line.message.content.kind /= "missing"

\* C8: a line is rejected exactly when it is not well-formed structured data,
\* its kind is neither "user" nor "assistant", its message body is absent,
\* its role is not recognized or its timestamp cannot be parsed; every other
\* line yields one entry.
C8_RejectedExactlyWhen ==
    out /= Pending =>
        (~out.ok <=>
            \/ ~IsWellFormed(raw)
            \/ raw.type \notin {"user", "assistant"}
            \/ raw.message.kind \in {"missing", "null"}
            \/ raw.message.role \notin {"user", "assistant", "system"}
            \/ raw.timestamp \notin {"2024-01-01T00:00:00Z", "2024-01-01T00:00:01Z",
                                     "2024-01-01T09:00:00+09:00"})

\* C8: a well-formed line of kind "user" whose role is "system" was accepted
\* (the role decides, not the kind)
C8_Witness ==
    /\ out.ok
    /\ raw.type = "user"
    /\ raw.message.role = "system"
    /\ out.msg.role = "System"

\* the text a block stands for: its literal text, or its marker
ExpectedLine(b) ==
    CASE b.type = "text" -> b.text
      [] b.type = "tool_use" -> <<"[Tool Use: ", b.name, "]">>
      [] b.type = "tool_result" -> <<"[Tool Result]">>
      [] b.type = "thinking" -> <<"[Thinking...]">>
      [] b.type = "NONSTRING" -> <<"[unknown]">>
      [] OTHER -> <<"[", b.type, "]">>

\* a block with a type, and with the text or the tool name its type calls for
IsWholeBlock(b) ==
    /\ b.kind = "object"
    /\ b.type /= "MISSING"
    /\ b.type = "text" => b.hasText
    /\ b.type = "tool_use" => b.name /= "MISSING"

\* the lines of a text: the stretches between its line breaks
RECURSIVE SplitLines(_, _)
SplitLines(s, line) ==
    IF s = <<>> THEN <<line>>
    ELSE IF Head(s) = "NL" THEN <<line>> \o SplitLines(Tail(s), <<>>)
    ELSE SplitLines(Tail(s), Append(line, Head(s)))

LinesOfText(s) == IF s = <<>> THEN <<>> ELSE SplitLines(s, <<>>)

\* an entry was extracted from a line whose body is a list of blocks
ListExtracted == out.ok /\ raw.message.content.kind = "array"

\* C10, as claimed: the display text of a list body has exactly one line per
\* block, in block order, each the block's text or marker.
C10_OneLinePerBlock ==
    LET items == raw.message.content.items
    IN  (ListExtracted /\ \A i \in DOMAIN items : IsWholeBlock(items[i])) =>
            LinesOfText(out.msg.content) = [i \in DOMAIN items |-> ExpectedLine(items[i])]

\* C10, amended: the display text of a list body is the blocks' texts and
\* markers in block order, each followed by a line break, without the
\* whitespace that ends this concatenation; a block that is no object, has no
\* type, or lacks the text or tool name of its type adds nothing.
C10_BlocksInOrder ==
    LET items == raw.message.content.items
        full == Flatten([i \in DOMAIN items |->
                    IF IsWholeBlock(items[i])
                    THEN ExpectedLine(items[i]) \o <<"NL">> ELSE <<>>])
        text == out.msg.content
    IN  ListExtracted =>
            /\ Len(text) <= Len(full)
            /\ text = SubSeq(full, 1, Len(text))
            /\ \A k \in (Len(text) + 1)..Len(full) : IsWhitespace(full[k])
            /\ text = <<>> \/ ~IsWhitespace(text[Len(text)])

\* C10: a tool invocation followed by an empty text block gave the marker
\* alone, one line for two blocks
C10_Witness ==
    /\ ListExtracted
    /\ Len(raw.message.content.items) = 2
    /\ raw.message.content.items[1].type = "tool_use"
    /\ raw.message.content.items[2].type = "text"
    /\ raw.message.content.items[2].hasText
    /\ out.msg.content = <<"[Tool Use: ", "Bash", "]">>

\* C11: an entry extracted from a list body carries that list as its raw
\* payload, which is what the webhook filter inspects; an entry extracted
\* from a plain-string body carries none.
C11_RawPayloadRetained ==
    out.ok =>
        /\ raw.message.content.kind = "array" =>
              raw_content(out.msg) = raw.message.content
        /\ raw.message.content.kind = "string" =>
              raw_content(out.msg) = NoContent

(***************************************************************************)
(* The resolver's claims.                                                  *)
(***************************************************************************)
\* no project directory could be listed
DirectoryNotFound ==
    result \in {"Claude projects directory not found", "Project directory not found"}

\* the entries of the listing that are session files of a project
IsSessionEntry(e) == e.path \in Files

\* C12: the resolver returns a session file (log extension, in a project
\* directory) of the listing whose modification time no other such file
\* exceeds; whenever the listing has such a file it returns one, also when
\* two of them tie, and never a path with another extension.
C12_LatestCandidate ==
    /\ result = "Ok" =>
          \E i \in DOMAIN listing :
              /\ listing[i].path = target
              /\ IsSessionEntry(listing[i])
              /\ \A j \in DOMAIN listing :
                    IsSessionEntry(listing[j]) => listing[j].mtime <= listing[i].mtime
    /\ (result /= "running" /\ ~DirectoryNotFound
            /\ \E j \in DOMAIN listing : IsSessionEntry(listing[j]))
          => result = "Ok"

\* C12: two session files tie for the latest time while a file of another
\* extension is newer than both, and one of the two was returned
C12_Witness ==
    /\ result = "Ok"
    /\ \E i, j, k \in DOMAIN listing :
          /\ listing[i].path = "A" /\ listing[j].path = "B"
          /\ listing[i].mtime = listing[j].mtime
          /\ listing[k].path = NonLogPath
          /\ listing[k].mtime > listing[i].mtime
    /\ target \in Files

\* the results that say that no session file was found
NotFoundResults ==
    {"No session files found", "No session files found in project"}

\* C13: when the resolver finds no candidate, the "latest" watch ends with
\* the not-found error as its result: no watch is registered, the pipeline
\* is in Error without having been Watching, nothing was read, and from then
\* on nothing is resolved or registered again.
C13_NotFoundFailsOnce ==
    [][/\ \A inProject \in BOOLEAN, watchOk \in BOOLEAN, ioErr \in BOOLEAN :
            ((~\E i \in DOMAIN listing : IsSessionEntry(listing[i]))
                /\ StartLatest(inProject, TRUE, watchOk, ioErr))
            => /\ state' = "Error"
               /\ result' = IF inProject THEN "No session files found in project"
                            ELSE "No session files found"
               /\ ~registered'
               /\ target' = NoTarget
               /\ trace' = <<>>
       /\ result \in NotFoundResults => UNCHANGED vars
       /\ result' \in NotFoundResults => state = "Idle"]_vars

\* C13: the directory had a file, though no session file, and the watch
\* ended with the not-found error
C13_Witness ==
    /\ result \in NotFoundResults
    /\ listing /= <<>>
    /\ state = "Error"
    /\ ~registered

\* C14: the target is resolved once: after the start of the watch it never
\* changes, whatever file is created or written to later.
C14_TargetFixed == [][state /= "Idle" => target' = target]_vars

\* C14: the watch runs on A, a notification for it has been handled, and B,
\* written to or created after the start, is now the latest session file
C14_Witness ==
    /\ state = "Watching"
    /\ target = "A"
    /\ trace /= <<>>
    /\ trace[1].trigger = "event"
    /\ Resolve(FALSE, TRUE, listing).path = "B"

\* C17: in single-file mode only the target is read: every call of the
\* reader is on the target, no line of another file is yielded and the
\* cursor moves over no byte of another file.
C17_OnlyTargetRead ==
    target /= NoTarget =>
        /\ \A i \in DOMAIN trace : trace[i].file = target
        /\ \A f \in Files \ {target} : yielded[f] = <<>> /\ consumed[f] = 0

(***************************************************************************)
(* The router's claims.                                                    *)
(***************************************************************************)
\* C15: every reader call that a notification led to was made after the
\* handler had waited the debounce delay for that path: the first after one
\* delay, each further one after one more delay than the call before it.
C15_DebounceBeforeRead ==
    \A i \in DOMAIN trace :
        trace[i].trigger = "event" =>
            /\ trace[i].waited >= DebounceMs
            /\ (i > 1 /\ trace[i - 1].trigger = "event") =>
                  trace[i].waited >= trace[i - 1].waited + DebounceMs

\* C15: one notification named two session files and both were read, the
\* second after two delays
C15_Witness ==
    /\ Len(trace) = 2
    /\ trace[2].trigger = "event"
    /\ trace[2].waited = 2 * DebounceMs
    /\ trace[2].lines /= <<>>

\* C16: a notification of another kind, or with no path of the log
\* extension, is discarded: the turn of the loop that takes it calls the
\* reader on nothing and leaves the cursor, the lines yielded and the state
\* as they were, and nothing changes them before the next notification; and
\* no notification ever has the reader called on a path without the log
\* extension.
C16_DiscardedWithoutEffect ==
    [][/\ routed' = "discarded" =>
             /\ trace' = <<>>
             /\ last_position' = last_position
             /\ yielded' = yielded
             /\ consumed' = consumed
             /\ state' = state \/ ChannelClosed
       /\ \A i \in DOMAIN trace' : IsJsonl(trace'[i].file)]_vars

\* C16: A was read before; B holds bytes that nothing has read, and the
\* latest notification was one to discard
C16_Witness ==
    /\ state = "Watching"
    /\ routed = "discarded"
    /\ trace = <<>>
    /\ yielded["A"] /= <<>>
    /\ content["B"] /= <<>>
    /\ consumed["B"] = 0

\* C19: a pipeline that is Watching stays Watching, whatever a handler or
\* the notification source reports, until the notification channel closes;
\* it is then Stopped and the entry point has returned Ok.
C19_WatchingUntilChannelCloses ==
    [][state = "Watching" =>
          \/ state' = "Watching" /\ result' = "running"
          \/ ChannelClosed /\ state' = "Stopped" /\ result' = "Ok"]_vars

\* C19: the handler of a notification has failed and the pipeline is still
\* Watching
C19_Witness ==
    /\ state = "Watching"
    /\ trace /= <<>>
    /\ ~trace[Len(trace)].ok
    /\ trace[Len(trace)].trigger = "event"
    /\ result = "running"

(***************************************************************************)
(* The supervisor's claims.                                                *)
(***************************************************************************)
\* C18: a pipeline whose watch registration fails goes from Idle to Error,
\* never having been Watching nor having taken a notification; its error is
\* sent to the supervisor, the step changes no other pipeline, and a
\* pipeline in Error does nothing more.
C18_RegistrationFailure ==
    [][\A p \in EntryNames :
          /\ (pipes'[p].state = "Error" /\ pipes[p].state /= "Error") =>
                /\ pipes[p].state = "Idle"
                /\ ~pipes'[p].handled
                /\ errchan' = Append(errchan, p)
                /\ \A q \in EntryNames \ {p} : pipes'[q] = pipes[q]
          /\ pipes[p].state = "Error" => pipes'[p] = pipes[p]]_vars

\* C18: the registration of p1 failed and was reported, and its sibling p2
\* is Watching and has taken a notification
C18_Witness ==
    /\ pipes["p1"].state = "Error"
    /\ InSeq("p1", printed)
    /\ pipes["p2"].state = "Watching"
    /\ pipes["p2"].handled

\* how often x occurs in seq
Count(seq, x) == Cardinality({i \in DOMAIN seq : seq[i] = x})

\* C20: watch_all lists the directory once: when it goes on to wait, it has
\* spawned exactly one pipeline for each entry that is a directory at that
\* time and none for any other entry, and from then on it spawns none, so
\* that a project created later has no pipeline.
C20_OnePipelinePerProject ==
    [][/\ (supervisor = "Idle" /\ supervisor' = "Waiting") =>
             \A n \in EntryNames :
                 /\ Count(spawned', n) = IF projects[n] = "dir" THEN 1 ELSE 0
                 /\ pipes'[n].state = IF projects[n] = "dir" THEN "Idle" ELSE "none"
       /\ supervisor /= "Idle" =>
             /\ spawned' = spawned
             /\ \A n \in EntryNames :
                   pipes[n].state = "none" => pipes'[n].state = "none"]_vars

\* C20: of three entries one was a directory at the start and has its
\* pipeline, one is a plain file, and one is a project created later, which
\* has none
C20_Witness ==
    /\ supervisor = "Waiting"
    /\ spawned = <<"p1">>
    /\ pipes["p1"].state = "Watching"
    /\ projects["p2"] = "file"
    /\ projects["p3"] = "dir"
    /\ pipes["p3"].state = "none"

\* C21: the failure of a pipeline is sent on the supervisor's channel, where
\* it stays until the supervisor prints it, once; the step in which a
\* pipeline fails changes no other pipeline; the supervisor goes on waiting
\* whatever it is sent; and a pipeline that is Watching stays so, able to
\* take its notifications, until its own notification channel closes.
C21_FailureIsolated ==
    [][/\ \A p \in EntryNames :
             (pipes'[p].state = "Error" /\ pipes[p].state /= "Error") =>
                /\ errchan' = Append(errchan, p)
                /\ \A q \in EntryNames \ {p} : pipes'[q] = pipes[q]
       /\ \A p \in EntryNames :
             Count(errchan' \o printed', p) =
                 IF pipes'[p].state = "Error" THEN 1 ELSE 0
       /\ supervisor = "Waiting" => supervisor' = "Waiting"
       /\ \A q \in EntryNames :
             pipes[q].state = "Watching" =>
                \/ pipes'[q].state = "Watching"
                \/ pipes'[q].state = "Stopped" /\ PipeClosed(q)]_vars

\* C21: two pipelines have failed, one after the other, and the supervisor
\* has printed both failures; the third took a notification after that
C21_Witness ==
    /\ supervisor = "Waiting"
    /\ printed = <<"p1", "p3">>
    /\ pipes["p2"].state = "Watching"
    /\ pipes["p2"].handled
    /\ pipes["p2"].gone = "seen"

\* the errors reported for pipeline p: the messages about p on the
\* supervisor's channel or printed from it, and the errors of its
\* notification source that the pipeline printed itself
Reports(p, chan, shown, pipe) == Count(chan \o shown, p) + pipe.warned

\* C22: when the directory of a pipeline that is Watching is deleted, no
\* other pipeline is changed by that, and once the loop of the pipeline has
\* taken the notification of the deletion an error has been reported for it
\* exactly once.
C22_DeletedReportedOnce ==
    [][\A p \in EntryNames :
          /\ DeleteProject(p) =>
                \A q \in EntryNames \ {p} : pipes'[q] = pipes[q]
          /\ pipes'[p].gone = "seen" =>
                Reports(p, errchan', printed', pipes'[p]) = 1]_vars

\* the task spawned for p has not ended: it waits to be polled or is in
\* its loop
Running(p) == pipes[p].state \in {"Idle", "Watching"}

\* C23: watch_all has returned, with success or with an error, only if
\* every pipeline it spawned has ended.
C23_SupervisorOutlivesPipelines ==
    result /= "running" => \A p \in EntryNames : ~Running(p)

\* C24: waiting for a notification occupies nothing that another pipeline
\* needs: while the supervisor waits, whatever the number of pipelines and
\* of worker threads, a pipeline that was spawned can be started, and a
\* pipeline that is Watching can take a notification that has arrived.
C24_WaitingIsSuspension ==
    supervisor = "Waiting" =>
        \A p \in EntryNames :
            /\ pipes[p].state = "Idle" => ENABLED PipeStart(p, TRUE)
            /\ pipes[p].state = "Watching" => ENABLED PipeEvent(p, "event")

\* C25: every pipeline that watch_all spawns works with the options of the
\* watcher the operator configured: the same include-existing flag, webhook
\* sender and tool-display mode; so with include-existing set a pipeline
\* that got to its loop has delivered the entries that were there, and with
\* a webhook set a pipeline that took a notification has posted its entries.
C25_OptionsApplyToEveryPipeline ==
    \A p \in EntryNames :
        pipes[p].state /= "none" =>
            /\ pipes[p].watcher = Configured
            /\ (include_existing /\ pipes[p].state \in {"Watching", "Stopped"}) =>
                  pipes[p].existing
            /\ (webhook_sender = "Some" /\ pipes[p].handled) => pipes[p].posted

(***************************************************************************)
(* The sinks' claims.                                                      *)
(***************************************************************************)
\* the events of sink that the latest read wrote for its entry i
EventsOf(sink, i) ==
    {k \in DOMAIN emitted : emitted[k].sink = sink /\ emitted[k].entry = i}

\* entry i of the latest read got its line on stdout
Delivered(i) == EventsOf("stdout", i) /= {}

\* a webhook call was made for entry i of the latest read
Attempted(i) == EventsOf("webhook", i) /= {}

\* the entry renders to text that is not blank
Renders(msg) == ~IsBlank(format_message(msg, tool_display_mode))

\* C26: with the watcher's startup instant T, an entry with timestamp < T
\* gets no stdout line and no webhook call when include_existing is false;
\* when it is true, and for an entry with timestamp >= T whatever the flag,
\* an entry that renders to text gets its stdout line and, if a webhook is
\* configured and the noise gate lets it pass, its webhook call.
C26_CutoffGate ==
    \A i \in DOMAIN messages :
        LET msg == messages[i]
        IN  IF msg.timestamp < startup_time /\ ~include_existing
            THEN ~Delivered(i) /\ ~Attempted(i)
            ELSE Renders(msg) =>
                    /\ Delivered(i)
                    /\ (/\ webhook_sender = "Some"
                        /\ ~is_low_information_message_for_webhook(msg)) =>
                           Attempted(i)

\* C26: without include_existing, a read returned an entry written before
\* the startup instant and one written at it: only the second was printed
\* and posted
C26_Witness ==
    /\ ~include_existing
    /\ webhook_sender = "Some"
    /\ Len(messages) = 2
    /\ messages[1].timestamp < startup_time
    /\ messages[2].timestamp = startup_time
    /\ ~Delivered(1) /\ ~Attempted(1)
    /\ Delivered(2) /\ Attempted(2)

\* C28: an entry of a read gets exactly one stdout line if it passes the
\* cutoff gate and renders to text that is not blank, and none otherwise,
\* whether no webhook is configured or the webhook call was made and
\* succeeded, was skipped or failed.
C28_StdoutAlwaysReceives ==
    \A i \in DOMAIN messages :
        Cardinality(EventsOf("stdout", i)) =
            IF ~SkippedByCutoff(messages[i]) /\ Renders(messages[i]) THEN 1 ELSE 0

\* C28: both entries of a read pass the cutoff gate and render to text; the
\* webhook call of the first succeeded and that of the second failed, and
\* each has its line
C28_Witness ==
    /\ Len(messages) = 2
    /\ \E k \in EventsOf("webhook", 1) : emitted[k].text = "Sent"
    /\ \E k \in EventsOf("webhook", 2) : emitted[k].text = "Status"
    /\ Failed(emitted, 2)
    /\ Delivered(1) /\ Delivered(2)

\* C29: the two sinks do not wait for each other: the stdout line of an
\* entry is not held back until the entry's webhook call has come to its
\* end, so that the line of an entry whose call runs into the timeout is
\* written before that call ends.
C29_SinksIndependent ==
    \A i \in DOMAIN messages :
        \A k \in EventsOf("stdout", i), j \in EventsOf("webhook", i) :
            emitted[j].text = "Timeout" => k < j

\* C30: a webhook call that fails is logged and ends nothing: the pipeline
\* is Watching, every failed call of the latest read has its line on
\* stderr and its entry its line on stdout, and every entry that comes after
\* a failure, in the same read or in a later one, and passes the cutoff gate
\* and renders to text is printed and, with a webhook configured, posted.
C30_WebhookFailureContained ==
    /\ state = "Watching"
    /\ \A i \in DOMAIN messages :
          /\ (\E k \in EventsOf("webhook", i) : emitted[k].text /= "Sent") =>
                Failed(emitted, i) /\ Delivered(i)
          /\ (/\ webhook_failed \/ \E h \in 1..(i - 1) : Failed(emitted, h)
              /\ ~SkippedByCutoff(messages[i])
              /\ Renders(messages[i])) =>
                /\ Delivered(i)
                /\ webhook_sender = "Some" => Attempted(i)

\* C30: a webhook call failed in an earlier read; in the latest read the
\* call of the first entry ran into the timeout and the second entry was
\* printed and posted all the same
C30_Witness ==
    /\ webhook_failed
    /\ Len(messages) = 2
    /\ \E k \in EventsOf("webhook", 1) : emitted[k].text = "Timeout"
    /\ Failed(emitted, 1)
    /\ Delivered(2)
    /\ \E k \in EventsOf("webhook", 2) : emitted[k].text = "Sent"

\* the noise gate as specified, on the body of a line: a list with no text
\* block that is not empty (white space is no text), in which every block
\* is a tool result or every tool invocation names Read or Edit
Suppressible(c) ==
    /\ c.kind = "array"
    /\ ~\E i \in DOMAIN c.items :
          /\ c.items[i].kind = "object" /\ c.items[i].type = "text"
          /\ c.items[i].hasText /\ ~IsBlank(c.items[i].text)
    /\ \/ \A i \in DOMAIN c.items :
             c.items[i].kind = "object" /\ c.items[i].type = "tool_result"
       \/ \A i \in DOMAIN c.items :
             (c.items[i].kind = "object" /\ c.items[i].type = "tool_use") =>
                 c.items[i].name \in {"Read", "Edit"}

\* C27: the webhook's noise gate suppresses an entry exactly when its body
\* is a list with no text block that is not empty in which every block is
\* a tool result or every tool invocation names a tool of the allow-list:
\* an entry whose only block is a tool result is suppressed, one with an
\* empty text block and an invocation of another tool is not.
C27_NoiseGate ==
    out.ok =>
        (is_low_information_message_for_webhook(out.msg)
            <=> Suppressible(raw.message.content))

(***************************************************************************)
(* The claims on the reader and the sinks together.                        *)
(***************************************************************************)
\* C31: webhook delivery is at-most-once: over all the reads of a file no
\* line of it has more than one webhook request made for its entry, so an
\* entry whose request failed is never sent again by a later read.
C31_WebhookAtMostOnce ==
    \A f \in Files : \A p, q \in DOMAIN Deliveries(f, "webhook") :
        p /= q => Deliveries(f, "webhook")[p] /= Deliveries(f, "webhook")[q]

\* C32: within one file, each sink is handed the entries in the file's
\* append order: an entry handed to a sink after another is not the entry
\* of a line that comes before it in the file.
C32_AppendOrder ==
    \A f \in Files : \A sink \in {"stdout", "webhook"} :
        \A p, q \in DOMAIN Deliveries(f, sink) :
            p < q => Deliveries(f, sink)[p] <= Deliveries(f, sink)[q]

\* the offsets of the valid entries of a file whose bytes are c
EntryOffsets(c) ==
    LET entries == Entries(ReadLines(c, 0))
    IN  [k \in DOMAIN entries |-> entries[k].from]

\* C33: a project watch started with include-existing on a directory that
\* holds several session files emits every valid entry of every one of
\* them exactly once during startup, and a later notification for one of
\* the files emits no entry that was emitted before.
C33_ExistingEmittedOnce ==
    [][/\ (state = "Idle" /\ state' = "Watching" /\ include_existing) =>
              \A f \in Files : Deliveries(f, "stdout")' = EntryOffsets(content[f])
       /\ (state = "Watching" /\ include_existing) =>
              \A f \in Files :
                  \A q \in DOMAIN Deliveries(f, "stdout")' :
                      q > Len(Deliveries(f, "stdout")) =>
                          \A p \in DOMAIN Deliveries(f, "stdout") :
                              Deliveries(f, "stdout")'[q] /= Deliveries(f, "stdout")[p]]_vars

\* watch_all has launched a pipeline, and every pipeline it launched has
\* ended
AllEnded ==
    /\ supervisor = "Waiting"
    /\ spawned /= <<>>
    /\ \A p \in EntryNames : ~Running(p)

\* C34: once every pipeline launched by watch_all has ended, watch_all
\* eventually returns: its wait on the error channel ends.
C34_ReturnsWhenAllEnded == AllEnded ~> (result /= "running")

NoTextNoInvocation(c) ==
    /\ c.kind = "array"
    /\ ~\E i \in DOMAIN c.items :
          /\ c.items[i].kind = "object"
          /\ \/ c.items[i].type = "tool_use"
             \/ c.items[i].type = "text" /\ c.items[i].hasText
                /\ ~IsBlank(c.items[i].text)

\* with a webhook configured, a request is made for an entry that is past
\* the cutoff gate: it renders to text and send_message does not skip it
Requested(msg) ==
    /\ ~IsBlank(format_message(msg, tool_display_mode))
    /\ send_message(msg, "Sent") /= "Skipped"

\* C36: no webhook request is made for an entry whose list body has no text
\* block that is not empty and no tool invocation (only a thinking block,
\* only blocks of an unknown type, an empty list), and send_message never
\* skips an entry whose body is a plain string.
C36_NoContentSuppressed ==
    out.ok =>
        /\ NoTextNoInvocation(raw.message.content) => ~Requested(out.msg)
        /\ raw.message.content.kind = "string" =>
              send_message(out.msg, "Sent") /= "Skipped"

====
